---- MODULE Spec2Model ----
(***************************************************************************)
(* spinup: the /createservice handler (api.CreateService) and the helpers  *)
(* it calls, as a state machine.  Every request is handled by its own      *)
(* goroutine (net/http), so the handler is cut into steps at the points    *)
(* where it touches state shared with other requests: the TCP ports of the *)
(* host, the rendered compose files, the container engine, the per-tenant  *)
(* sqlite stores and the process itself (log.Fatal ends it).               *)
(***************************************************************************)
EXTENDS Integers, Sequences, FiniteSets, TLC

\* ------------------------------------------------------------- bounds
\* Number of requests the server receives in a run.
NumReq == 2
\* Other listeners hold the lowest k ports of the range when the server
\* starts, for some k up to MaxBusy, or they hold the whole range.
MaxBusy == 2

\* ---------------------------------------------------------- constants
StartingPort == 5432
EndingPort == 5440
\* The port createDockerComposeFile writes into the template data.
ComposePort == 5432
StatusOK == 200
StatusMethodNotAllowed == 405
StatusInternalServerError == 500

Requests == 1..NumReq
Ports == StartingPort..(EndingPort - 1)

\* Subjects a signed token can carry, and the userid values of a body.
Subjects == {"u1"}
UserIDs == {""} \cup Subjects
DbTypes == {"postgres", "mysql"}
DbNames == {"db"}
Methods == {"POST", "GET"}

\* An Authorization header is scheme ++ credential; a credential is a JWT,
\* abstracted to its subject and whether its signature verifies.
NoCred == [sub |-> "", sig |-> "none"]
\* The headers: none, a valid token without the "Bearer " prefix, a token
\* whose signature does not verify, and a valid token of each subject.
Headers == {[scheme |-> "", cred |-> NoCred]}
             \cup [scheme : {"Basic "}, cred : [sub : Subjects, sig : {"good"}]]
             \cup [scheme : {"Bearer "}, cred : [sub : Subjects, sig : {"bad"}]]
             \cup [scheme : {"Bearer "}, cred : [sub : Subjects, sig : {"good"}]]

\* A request body: unreadable, not JSON, or a decoded service struct.
BadBodies == {[kind |-> "unreadable"], [kind |-> "malformed"]}
JsonBodies == [kind : {"json"}, UserID : UserIDs, Type : DbTypes, Name : DbNames]
Bodies == BadBodies \cup JsonBodies

\* ------------------------------------------------- http.ResponseWriter
\* status 0: no header written yet.  The first WriteHeader wins; a Write
\* before any WriteHeader sends 200.
NoResponse == [status |-> 0, body |-> <<>>]

HttpError(w, msg, code) ==
    [status |-> IF w.status = 0 THEN code ELSE w.status,
     body   |-> Append(w.body, msg)]

Write(w, msg) ==
    [status |-> IF w.status = 0 THEN StatusOK ELSE w.status,
     body   |-> Append(w.body, msg)]

\* ------------------------------------------------------- validateToken
\* strings.Split(authHeader, "Bearer "): two parts when the prefix is there.
SplitBearer(h) ==
    IF h.scheme = "Bearer " THEN <<"", h.cred>> ELSE <<h>>

\* JWTToString: the subject of a token whose signature verifies.
JWTToString(c) ==
    IF c.sig = "good" THEN [userID |-> c.sub, err |-> FALSE]
                      ELSE [userID |-> "", err |-> TRUE]

validateToken(h) ==
    LET splitToken == SplitBearer(h)
    IN  IF Len(splitToken) < 2
        THEN [userID |-> "", err |-> TRUE]
        ELSE JWTToString(splitToken[2])

\* ------------------------------------------------------ the zero struct
ZeroService ==
    [UserID |-> "", Type |-> "", Name |-> "", Port |-> 0, ID |-> 0,
     Architecture |-> ""]

\* json.Unmarshal(byteArray, &s)
Unmarshal(b) ==
    [ZeroService EXCEPT !.UserID = b.UserID, !.Type = b.Type, !.Name = b.Name]

\* A docker-compose.yml: absent, truncated by os.Create and not (wholly)
\* written since ("empty"), or the rendered document.
NoFile == [state |-> "absent", doc |-> <<>>]
EmptyFile == [state |-> "empty", doc |-> <<>>]
Rendered(data) == [state |-> "rendered", doc |-> <<data>>]

VARIABLES
    alive,       \* the server process runs (log.Fatal has not been called)
    pc,          \* each request's position in CreateService
    userId,      \* validateToken's result for the request
    tokenErr,    \* validateToken returned an error for the request
    s,           \* the handler's service struct
    w,           \* the response written so far
    startingPort,\* portcheck's loop variable
    portErr,     \* portcheck returned an error (the handler drops it)
    dials,       \* the connection attempts portcheck made for the request
    calls,       \* the operations the handler has invoked, in order
    outcome,     \* how the handler ended
    listening,   \* ports of the host with a listener
    files,       \* the docker-compose.yml under each service path
    lastCreated, \* the container "docker ps --last 1" reports (0: none)
    store,       \* the clusterInfo rows of each tenant store
    writer       \* the request holding each store's write lock (0: none)

vars == <<alive, pc, userId, tokenErr, s, w, startingPort, portErr, dials, calls, outcome,
          listening, files, lastCreated, store, writer>>

ServicePaths == UserIDs \X DbNames

InitialListening ==
    {StartingPort..(StartingPort + k - 1) : k \in 0..MaxBusy} \cup {Ports}

Init ==
    /\ alive = TRUE
    /\ pc = [r \in Requests |-> "idle"]
    /\ tokenErr = [r \in Requests |-> FALSE]
    /\ userId = [r \in Requests |-> ""]
    /\ s = [r \in Requests |-> ZeroService]
    /\ w = [r \in Requests |-> NoResponse]
    /\ startingPort = [r \in Requests |-> 0]
    /\ portErr = [r \in Requests |-> FALSE]
    /\ dials = [r \in Requests |-> <<>>]
    /\ calls = [r \in Requests |-> <<>>]
    /\ outcome = [r \in Requests |-> "none"]
    /\ listening \in InitialListening
    /\ files = [p \in ServicePaths |-> NoFile]
    /\ lastCreated = 0
    /\ store = [u \in UserIDs |-> <<>>]
    /\ writer = [u \in UserIDs |-> 0]

\* The handler returns: its position and how it ended.
Return(r, how) ==
    /\ pc' = [pc EXCEPT ![r] = "done"]
    /\ outcome' = [outcome EXCEPT ![r] = how]

\* log.Fatal / log.Fatalf: os.Exit(1), every goroutine stops where it is.
Fatal(r, where) ==
    /\ alive' = FALSE
    /\ pc' = [pc EXCEPT ![r] = "fatal"]
    /\ outcome' = [outcome EXCEPT ![r] = where]

\* A handler that lets every userid through.
UserMatchesAlways(svc, uid) == TRUE

\* Line 133: s.UserID != userId fails the request.
UserMatches(svc, uid) == svc.UserID = uid

\* A handler that accepts every database type.
SupportedAlways(t) == TRUE

\* Line 138: s.Db.Type != "postgres" fails the request.
Supported(t) == t = "postgres"

\* CreateService, lines 114-142: everything up to the call of portcheck
\* reads and writes only the request's own data.  The header and the body
\* are read once; what the handler keeps of them is userId, the error of
\* validateToken and the decoded struct.
CreateServiceBegin(r) ==
    /\ alive
    /\ pc[r] = "idle"
    /\ \E m \in Methods :
        IF m # "POST"
        THEN /\ w' = [w EXCEPT ![r] = HttpError(NoResponse, "Invalid Method",
                                                StatusMethodNotAllowed)]
             /\ Return(r, "InvalidMethod")
             /\ UNCHANGED <<alive, userId, tokenErr, s, startingPort>>
        ELSE \E h \in Headers, b \in Bodies :
            LET tok == validateToken(h)
                w1  == IF tok.err
                       THEN HttpError(NoResponse, "error validating token",
                                      StatusInternalServerError)
                       ELSE NoResponse
            IN
            /\ userId' = [userId EXCEPT ![r] = tok.userID]
            /\ tokenErr' = [tokenErr EXCEPT ![r] = tok.err]
            /\ IF b.kind = "unreadable"
               THEN /\ w' = [w EXCEPT ![r] = w1]
                    /\ Fatal(r, "FatalReadAll")
                    /\ UNCHANGED <<s, startingPort>>
               ELSE IF b.kind = "malformed"
               THEN /\ w' = [w EXCEPT ![r] = w1]
                    /\ Fatal(r, "FatalUnmarshal")
                    /\ UNCHANGED <<s, startingPort>>
               ELSE IF ~UserMatches(Unmarshal(b), tok.userID)
               THEN /\ w' = [w EXCEPT ![r] =
                               HttpError(w1, "userid doesn't match",
                                         StatusInternalServerError)]
                    /\ s' = [s EXCEPT ![r] = Unmarshal(b)]
                    /\ Return(r, "UserMismatch")
                    /\ UNCHANGED <<alive, startingPort>>
               ELSE IF ~Supported(b.Type)
               THEN /\ w' = [w EXCEPT ![r] =
                               HttpError(Write(w1, "currently we don't support"),
                                         "db type is currently not supported",
                                         StatusInternalServerError)]
                    /\ s' = [s EXCEPT ![r] = Unmarshal(b)]
                    /\ Return(r, "Unsupported")
                    /\ UNCHANGED <<alive, startingPort>>
               ELSE /\ w' = [w EXCEPT ![r] = w1]
                    /\ s' = [s EXCEPT ![r] = Unmarshal(b)]
                    /\ pc' = [pc EXCEPT ![r] = "portcheck"]
                    /\ startingPort' = [startingPort EXCEPT ![r] = StartingPort]
                    /\ UNCHANGED <<alive, outcome>>
    /\ UNCHANGED <<portErr, dials, calls, listening, files, lastCreated, store,
                   writer>>

\* Record that the handler has invoked op (once per request).
Called(r, op) ==
    calls' = [calls EXCEPT ![r] =
                 IF \E i \in 1..Len(@) : @[i] = op THEN @ ELSE Append(@, op)]

\* The value of the environment variable ARCHITECTURE, read by init().
architecture == "amd64"

\* net.DialTimeout("tcp", "localhost:<p>", 3s): nil when a listener accepts,
\* "connection refused" when none does; any dial can also fail otherwise
\* (a timeout).
DialResults(p) ==
    IF p \in listening THEN {"nil", "other"} ELSE {"refused", "other"}

\* A test that takes every dial error for a refusal.
IsRefusedAnyError(err) == err # "nil"

\* strings.Contains(err.Error(), "connect: connection refused")
IsRefused(err) == err = "refused"

\* portcheck's return, and lines 143-145 of CreateService: the port is
\* stored, the error is assigned to err and never read.
PortcheckReturn(r, port, err) ==
    /\ s' = [s EXCEPT ![r].Port = port, ![r].Architecture = architecture]
    /\ portErr' = [portErr EXCEPT ![r] = err]
    /\ pc' = [pc EXCEPT ![r] = "prepareService"]
    /\ UNCHANGED startingPort

\* A loop body that takes a port on which the connection succeeded.
ProbeTakesOpenPort(err) ==
    IF err = "nil" THEN "free"
    ELSE IF ~IsRefused(err) THEN "fail" ELSE "free"

\* A loop body that goes on to the next port after any error but a refusal.
ProbeSkipsErrors(err) ==
    IF err # "nil" /\ IsRefused(err) THEN "free" ELSE "next"

\* Lines 264-271: what one iteration does with the dial's error: return the
\* error, return the port, or go on to the next port.
Probe(err) ==
    IF err # "nil" /\ ~IsRefused(err) THEN "fail"
    ELSE IF err # "nil" /\ IsRefused(err) THEN "free"
    ELSE "next"

\* One iteration of portcheck's loop (or its exit).  dials records each
\* attempt: the port, the dial's error and whether the port had a listener.
portcheck(r) ==
    /\ alive
    /\ pc[r] = "portcheck"
    /\ Called(r, "portcheck")
    /\ LET p == startingPort[r] IN
       IF p < EndingPort
       THEN \E err \in DialResults(p) :
               /\ dials' = [dials EXCEPT ![r] =
                              Append(@, [port |-> p, err |-> err,
                                         bound |-> p \in listening])]
               /\ CASE Probe(err) = "fail" -> PortcheckReturn(r, 0, TRUE)
                    [] Probe(err) = "free" -> PortcheckReturn(r, p, FALSE)
                    [] Probe(err) = "next" ->
                         /\ startingPort' = [startingPort EXCEPT ![r] = p + 1]
                         /\ UNCHANGED <<s, portErr, pc>>
       ELSE /\ PortcheckReturn(r, 0, TRUE)
            /\ UNCHANGED dials
    /\ UNCHANGED <<alive, userId, tokenErr, w, outcome, listening, files,
                   lastCreated, store, writer>>

\* servicePath := projectDir + "/" + s.UserID + "/" + s.Db.Name
servicePath(svc) == <<svc.UserID, svc.Name>>

\* The data createDockerComposeFile hands to the template.
createDockerComposeFile(svc) ==
    [Path |-> "projectDir", UserID |-> svc.UserID,
     Architecture |-> svc.Architecture, Name |-> svc.Name,
     Port |-> ComposePort]

IsDocument(f) == f.state = "rendered"

\* An open that keeps what the file held (no truncation).
osCreateKeepsContent(f) == f

\* os.Create(outputPath): the file exists and is empty.
osCreate(f) == EmptyFile

\* templ.Execute(f, data): the document is written after what f holds.
Execute(f, data) == [state |-> "rendered", doc |-> f.doc \o <<data>>]

\* A handler's error return: http.Error(w, msg, 500); return.
Fail(r, msg, how) ==
    /\ w' = [w EXCEPT ![r] = HttpError(@, msg, StatusInternalServerError)]
    /\ Return(r, how)

\* prepareService: MkdirAll, then createDockerComposeFile (os.Create, parse
\* the template, execute it).  A failure of os.Create panics; net/http
\* recovers the panic and drops the connection without a response.
prepareService(r) ==
    /\ alive
    /\ pc[r] = "prepareService"
    /\ Called(r, "prepareService")
    /\ \E o \in {"mkdirFail", "createFail", "parseFail", "executeFail", "ok"} :
        LET path == servicePath(s[r]) IN
        CASE o = "mkdirFail" ->
               /\ Fail(r, "Error preparing service", "PrepareError")
               /\ UNCHANGED files
          [] o = "createFail" ->
               /\ Return(r, "Panic")
               /\ UNCHANGED <<w, files>>
          [] o = "parseFail" ->
               /\ files' = [files EXCEPT ![path] = osCreate(@)]
               /\ Fail(r, "Error preparing service", "PrepareError")
          [] o = "executeFail" ->
               /\ files' = [files EXCEPT ![path] = osCreate(@)]
               /\ Fail(r, "Error preparing service", "PrepareError")
          [] o = "ok" ->
               /\ files' = [files EXCEPT ![path] =
                              Execute(osCreate(@), createDockerComposeFile(s[r]))]
               /\ pc' = [pc EXCEPT ![r] = "ValidateSystemRequirements"]
               /\ UNCHANGED <<w, outcome>>
    /\ UNCHANGED <<alive, userId, tokenErr, s, startingPort, portErr, dials, listening,
                   lastCreated, store, writer>>

\* Record that the handler has invoked op, and what came of it.
CalledThen(r, op, marks) ==
    calls' = [calls EXCEPT ![r] =
                 (IF \E i \in 1..Len(@) : @[i] = op THEN @ ELSE Append(@, op))
                     \o marks]

\* A startService that goes on whatever a phase returned.
PhaseFailedNever(err) == FALSE

\* startService, lines 204-206, 208-210, 219-222: if err != nil, return err.
PhaseFailed(err) == err

\* cmd.Run() and cmd.CombinedOutput() wait for the command without a
\* timeout: a command that hangs blocks the handler for good.
Block(r) ==
    /\ pc' = [pc EXCEPT ![r] = "blocked"]
    /\ UNCHANGED <<w, outcome>>

\* startService, first phase: "which docker-compose", "which docker".
ValidateSystemRequirements(r) ==
    /\ alive
    /\ pc[r] = "ValidateSystemRequirements"
    /\ \E present \in BOOLEAN :
        /\ CalledThen(r, "ValidateSystemRequirements",
                      IF present THEN <<"PreflightOk">> ELSE <<>>)
        /\ IF PhaseFailed(~present)
           THEN Fail(r, "Error starting service", "PreflightError")
           ELSE /\ pc' = [pc EXCEPT ![r] = "ValidateDockerCompose"]
                /\ UNCHANGED <<w, outcome>>
    /\ UNCHANGED <<alive, userId, tokenErr, s, startingPort, portErr, dials, listening,
                   files, lastCreated, store, writer>>

\* startService, second phase: "docker-compose -f <path> config".
ValidateDockerCompose(r) ==
    /\ alive
    /\ pc[r] = "ValidateDockerCompose"
    /\ \E o \in {"valid", "invalid", "hang"} :
        LET valid == o = "valid" /\ IsDocument(files[servicePath(s[r])]) IN
        /\ CalledThen(r, "ValidateDockerCompose",
                      IF valid THEN <<"ConfigOk">> ELSE <<>>)
        /\ IF o = "hang"
           THEN Block(r)
           ELSE IF PhaseFailed(~valid)
           THEN Fail(r, "Error starting service", "ComposeValidationError")
           ELSE /\ pc' = [pc EXCEPT ![r] = "Up"]
                /\ UNCHANGED <<w, outcome>>
    /\ UNCHANGED <<alive, userId, tokenErr, s, startingPort, portErr, dials, listening,
                   files, lastCreated, store, writer>>

\* startService, third phase: "docker-compose -f <path> up -d".  The engine
\* reads the document on disk: the container it creates is now the most
\* recent one and listens on the document's port.
Up(r) ==
    /\ alive
    /\ pc[r] = "Up"
    /\ \E o \in {"started", "failed", "hang"} :
        LET f == files[servicePath(s[r])]
            started == o = "started" /\ IsDocument(f)
        IN
        /\ CalledThen(r, "Up", IF started THEN <<"UpOk">> ELSE <<>>)
        /\ IF started
           THEN /\ listening' = listening \cup {f.doc[1].Port}
                /\ lastCreated' = r
           ELSE UNCHANGED <<listening, lastCreated>>
        /\ IF o = "hang"
           THEN Block(r)
           ELSE IF PhaseFailed(~started)
           THEN Fail(r, "Error starting service", "LaunchError")
           ELSE /\ pc' = [pc EXCEPT ![r] = "lastContainerID"]
                /\ UNCHANGED <<w, outcome>>
    /\ UNCHANGED <<alive, userId, tokenErr, s, startingPort, portErr, dials, files, store,
                   writer>>

\* lastContainerID: the output of "docker ps --last 1 -q" (container ids are
\* numbered by the request that created them, 0 is the empty output), and
\* lines 175-186 of CreateService.
lastContainerID(r) ==
    /\ alive
    /\ pc[r] = "lastContainerID"
    /\ Called(r, "lastContainerID")
    /\ \E o \in {"err", "empty", "id", "hang"} :
        IF o = "hang"
        THEN /\ Block(r)
             /\ UNCHANGED s
        ELSE IF o = "err"
        THEN /\ Fail(r, "Error getting container id", "ContainerIDError")
             /\ UNCHANGED s
        ELSE /\ s' = [s EXCEPT ![r].ID = IF o = "empty" THEN 0 ELSE lastCreated]
             /\ pc' = [pc EXCEPT ![r] = "updateSqliteDB"]
             /\ UNCHANGED <<w, outcome>>
    /\ UNCHANGED <<alive, userId, tokenErr, startingPort, portErr, dials, listening, files,
                   lastCreated, store, writer>>

\* The serviceResponse CreateService marshals.
serviceResponse(svc) ==
    [HostName |-> "localhost", Port |-> svc.Port, ContainerID |-> svc.ID]

\* A row that carries the port of the compose document.
ClusterRecordComposePort(r, data) ==
    [clusterId |-> data.ID, Name |-> data.Name, Port |-> ComposePort, req |-> r]

\* The row updateSqliteDB inserts (req: the request that inserted it).
ClusterRecord(r, data) ==
    [clusterId |-> data.ID, Name |-> data.Name, Port |-> data.Port, req |-> r]

\* updateSqliteDB, lines 300-320: open the tenant's store, create the table
\* (a failure is only logged), begin a transaction, prepare the insert.
sqlBegin(r) ==
    /\ alive
    /\ pc[r] = "updateSqliteDB"
    /\ Called(r, "updateSqliteDB")
    /\ \E o \in {"openFail", "beginFail", "prepareFail", "ok"} :
        IF o = "ok"
        THEN /\ pc' = [pc EXCEPT ![r] = "sqlExec"]
             /\ UNCHANGED <<alive, outcome>>
        ELSE Fatal(r, "FatalPersist")
    /\ UNCHANGED <<userId, tokenErr, s, w, startingPort, portErr, dials, listening, files,
                   lastCreated, store, writer>>

\* updateSqliteDB, lines 321-324: stmt.Exec takes the store's write lock;
\* it fails (busy) when another connection keeps holding it.
sqlExec(r) ==
    /\ alive
    /\ pc[r] = "sqlExec"
    /\ \E ok \in BOOLEAN :
        IF ok
        THEN /\ writer[s[r].UserID] = 0
             /\ writer' = [writer EXCEPT ![s[r].UserID] = r]
             /\ pc' = [pc EXCEPT ![r] = "sqlCommit"]
             /\ UNCHANGED <<alive, outcome>>
        ELSE /\ Fatal(r, "FatalPersist")
             /\ UNCHANGED writer
    /\ UNCHANGED <<userId, tokenErr, s, w, startingPort, portErr, dials, calls, listening,
                   files, lastCreated, store>>

\* updateSqliteDB, line 325: tx.Commit(), its error dropped; then line 188,
\* w.Write(jsonBody).
sqlCommit(r) ==
    /\ alive
    /\ pc[r] = "sqlCommit"
    /\ \E committed \in BOOLEAN :
        store' = [store EXCEPT ![s[r].UserID] =
                     IF committed THEN Append(@, ClusterRecord(r, s[r])) ELSE @]
    /\ writer' = [writer EXCEPT ![s[r].UserID] = 0]
    /\ w' = [w EXCEPT ![r] = Write(@, serviceResponse(s[r]))]
    /\ Return(r, "Completed")
    /\ UNCHANGED <<alive, userId, tokenErr, s, startingPort, portErr, dials, calls,
                   listening, files, lastCreated>>

CreateService(r) ==
    \/ CreateServiceBegin(r)
    \/ portcheck(r)
    \/ prepareService(r)
    \/ ValidateSystemRequirements(r)
    \/ ValidateDockerCompose(r)
    \/ Up(r)
    \/ lastContainerID(r)
    \/ sqlBegin(r)
    \/ sqlExec(r)
    \/ sqlCommit(r)

Next ==
    \E r \in Requests : CreateService(r)

Spec == Init /\ [][Next]_vars

\* ------------------------------------------------------------ claims
Invoked(r, op) == \E i \in 1..Len(calls[r]) : calls[r][i] = op

\* The body of the request was read and decoded into s.
Decoded(r) ==
    /\ pc[r] # "idle"
    /\ outcome[r] \notin {"InvalidMethod", "FatalReadAll", "FatalUnmarshal"}

\* The rows some tenant store holds that request r inserted.
RecordsOf(r) ==
    UNION {{<<u, i>> : i \in {j \in DOMAIN store[u] : store[u][j].req = r}} :
              u \in UserIDs}

Persisted(r) == RecordsOf(r) # {}

\* No port allocated, nothing rendered, launched or persisted for r.
NoSideEffects(r) ==
    /\ calls[r] = <<>>
    /\ pc[r] \in {"idle", "done", "fatal"}
    /\ s[r].Port = 0
    /\ ~Persisted(r)

LastMessage(r) == w[r].body[Len(w[r].body)]

\* C1: a request whose body userid differs from the user id of its token
\* fails with the error "userid doesn't match" and an error status, and never
\* allocates a port, renders, launches or persists.
C1_MismatchFailsWithoutSideEffects ==
    \A r \in Requests :
        (Decoded(r) /\ s[r].UserID # userId[r]) =>
            /\ NoSideEffects(r)
            /\ pc[r] = "done"
            /\ outcome[r] = "UserMismatch"
            /\ w[r].status >= 400
            /\ LastMessage(r) = "userid doesn't match"

\* C1 witness: a request with a valid token for u1 and another userid in its
\* body has been answered, while another request went on to allocate a port.
C1_Witness ==
    \E r, q \in Requests :
        /\ Decoded(r) /\ ~tokenErr[r] /\ userId[r] = "u1" /\ s[r].UserID # "u1"
        /\ pc[r] = "done"
        /\ q # r /\ Invoked(q, "portcheck")

\* C2: a request whose token validation fails is over at that point: it gets
\* an error response and never allocates a port, renders, launches or
\* persists, whatever its body.
C2_BadTokenIsTerminal ==
    \A r \in Requests :
        tokenErr[r] => NoSideEffects(r) /\ (pc[r] = "done" => w[r].status >= 400)

\* portcheck tried every port of the range and returned its error.
Exhausted(r) == portErr[r] /\ startingPort[r] = EndingPort

\* C3: when portcheck returns an error because every port in [5432,5440) is
\* occupied, the request fails with an error response, and neither
\* prepareService nor startService is called for it.
C3_AllocationFailureStops ==
    \A r \in Requests :
        Exhausted(r) =>
            /\ ~Invoked(r, "prepareService")
            /\ ~Invoked(r, "ValidateSystemRequirements")
            /\ ~Invoked(r, "Up")
            /\ (pc[r] = "done" => outcome[r] # "Completed" /\ w[r].status >= 400)

\* startService is running for r on a port portcheck returned.
Launching(r) ==
    /\ pc[r] \in {"ValidateSystemRequirements", "ValidateDockerCompose", "Up"}
    /\ ~portErr[r]

\* C4: two requests that run concurrently never hold the same allocated port
\* while both are in their launch phase.
C4_ConcurrentPortsDistinct ==
    \A r1, r2 \in Requests :
        (r1 # r2 /\ Launching(r1) /\ Launching(r2)) => s[r1].Port # s[r2].Port

\* C5: no request-triggered failure (body read or decode, file creation,
\* open/begin/prepare/execute/commit of the insert) ends the server process.
C5_ProcessNeverTerminated == alive

\* C6: the port prepareService writes into the compose document of a request
\* is the port portcheck allocated to that request.
C6_RenderedPortIsAllocatedPort ==
    [][\A r \in Requests :
          (pc[r] = "prepareService" /\ pc'[r] = "ValidateSystemRequirements"
              /\ ~portErr[r])
          => files'[servicePath(s[r])].doc[1].Port = s[r].Port]_vars

\* The success response: status 200 carrying the serviceResponse.
SuccessResponse(r) ==
    /\ w[r].status = StatusOK
    /\ Len(w[r].body) = 1
    /\ w[r].body[1] = serviceResponse(s[r])

\* C7: a success response is sent only if the request's ClusterRecord was
\* committed to the tenant's store; a failed commit fails the request.
\* (Stated of the requests whose allocation and identifier lookup went well,
\* so that only the Persisting stage decides it.)
C7_SuccessOnlyIfCommitted ==
    \A r \in Requests :
        (pc[r] = "done" /\ SuccessResponse(r) /\ ~portErr[r] /\ s[r].ID # 0)
            => Persisted(r)

\* The request failed before the Persisting stage.
FailedBeforePersisting(r) ==
    \/ portErr[r]
    \/ outcome[r] \in {"UserMismatch", "Unsupported", "PrepareError", "Panic",
                       "PreflightError", "ComposeValidationError",
                       "LaunchError", "ContainerIDError"}

\* C8: every request appends at most one ClusterRecord, and a request that
\* failed in Validating, Allocating, Rendering or Launching appends none.
C8_RecordOnlyForSuccessfulProvision ==
    \A r \in Requests :
        /\ Cardinality(RecordsOf(r)) <= 1
        /\ FailedBeforePersisting(r) => ~Persisted(r)

C10_Status200OnlyWhenCompleted ==
    \A r \in Requests :
        /\ w[r].status = StatusOK => outcome[r] = "Completed"
        /\ (pc[r] = "done" /\ outcome[r] # "Completed")
               => w[r].status \in {400, 401, 405, 500, 507}

\* portcheck has returned a port to the request.
PortReturned(r) ==
    /\ Invoked(r, "portcheck")
    /\ pc[r] \notin {"idle", "portcheck"}
    /\ ~portErr[r]

\* portcheck has returned (a port or an error) to the request.
ScanOver(r) == Invoked(r, "portcheck") /\ pc[r] \notin {"idle", "portcheck"}

LastDial(r) == dials[r][Len(dials[r])]

\* C11: portcheck never returns a port that had a listener when it was
\* probed: the port it returns is not one on which the connection succeeded.
C11_ReturnedPortNotBound ==
    \A r \in Requests :
        PortReturned(r) =>
            /\ dials[r] # <<>>
            /\ LastDial(r).port = s[r].Port
            /\ ~LastDial(r).bound
            /\ \A i \in DOMAIN dials[r] :
                  (dials[r][i].err = "nil" \/ dials[r][i].bound)
                      => dials[r][i].port # s[r].Port

\* C11 witness: portcheck connected to a bound port, went on and returned a
\* later one.
C11_Witness ==
    \E r \in Requests :
        /\ PortReturned(r)
        /\ \E i \in DOMAIN dials[r] : dials[r][i].err = "nil" /\ dials[r][i].bound
        /\ s[r].Port > StartingPort

\* C12 as claimed: any outcome other than a refusal makes the scan go on, so
\* portcheck fails only after it has tried every port of the range.
C12_ScanFailsOnlyWhenExhausted ==
    \A r \in Requests :
        (ScanOver(r) /\ portErr[r]) =>
            /\ startingPort[r] = EndingPort
            /\ Len(dials[r]) = EndingPort - StartingPort

\* C12 amended: a successful connection makes the scan go on with the next
\* port; a dial error other than a refusal ends the scan at once with that
\* error; otherwise the scan fails only after it has connected to every port
\* of the range.
C12_ScanStopsAtFirstError ==
    \A r \in Requests :
        /\ \A i \in DOMAIN dials[r] :
              /\ dials[r][i].port = StartingPort + i - 1
              /\ i < Len(dials[r]) => dials[r][i].err = "nil"
              /\ dials[r][i].err = "other" =>
                    /\ i = Len(dials[r])
                    /\ ScanOver(r) /\ portErr[r] /\ s[r].Port = 0
        /\ (ScanOver(r) /\ portErr[r]) =>
              \/ dials[r] # <<>> /\ LastDial(r).err = "other"
              \/ /\ startingPort[r] = EndingPort
                 /\ Len(dials[r]) = EndingPort - StartingPort
                 /\ \A i \in DOMAIN dials[r] : dials[r][i].err = "nil"

\* C12 witness: a scan that connected to a port, went on, and was ended by
\* another dial error before the end of the range.
C12_Witness ==
    \E r \in Requests :
        /\ ScanOver(r) /\ portErr[r]
        /\ Len(dials[r]) >= 2
        /\ dials[r][1].err = "nil"
        /\ LastDial(r).err = "other"
        /\ LastDial(r).port < EndingPort - 1

\* C13: a port portcheck returns lies in [5432,5440), its connection attempt
\* was refused, and every lower port of the range was tried before it, in
\* ascending order, without a refusal.
C13_FirstRefusedPortInOrder ==
    \A r \in Requests :
        PortReturned(r) =>
            /\ s[r].Port \in Ports
            /\ Len(dials[r]) = s[r].Port - StartingPort + 1
            /\ LastDial(r).port = s[r].Port
            /\ LastDial(r).err = "refused"
            /\ \A i \in 1..(Len(dials[r]) - 1) :
                  /\ dials[r][i].port = StartingPort + i - 1
                  /\ dials[r][i].err # "refused"

\* C13 witness: portcheck returned a port above the first of the range.
C13_Witness ==
    \E r \in Requests :
        PortReturned(r) /\ s[r].Port = StartingPort + 2 /\ Len(dials[r]) = 3

\* The place of op among the operations the handler invoked.
Pos(r, op) == CHOOSE i \in 1..Len(calls[r]) : calls[r][i] = op

\* C14: the launch phases run in the order preflight, config, up: up is
\* invoked only after the preflight and the config validation succeeded,
\* and a phase that fails fails the request without a later phase.
C14_LaunchPhasesInOrder ==
    \A r \in Requests :
        /\ Invoked(r, "ValidateDockerCompose") =>
              /\ Invoked(r, "PreflightOk")
              /\ Pos(r, "PreflightOk") < Pos(r, "ValidateDockerCompose")
        /\ Invoked(r, "Up") =>
              /\ Invoked(r, "PreflightOk") /\ Invoked(r, "ConfigOk")
              /\ Pos(r, "ValidateSystemRequirements") < Pos(r, "ValidateDockerCompose")
              /\ Pos(r, "ConfigOk") < Pos(r, "Up")
        /\ (Invoked(r, "ValidateSystemRequirements") /\ ~Invoked(r, "PreflightOk")) =>
              /\ pc[r] = "done" /\ outcome[r] = "PreflightError"
              /\ w[r].status >= 400
        /\ (Invoked(r, "ValidateDockerCompose") /\ ~Invoked(r, "ConfigOk")
               /\ pc[r] # "blocked") =>
              /\ pc[r] = "done" /\ outcome[r] = "ComposeValidationError"
              /\ w[r].status >= 400
        /\ (Invoked(r, "Up") /\ ~Invoked(r, "UpOk") /\ pc[r] # "blocked") =>
              /\ pc[r] = "done" /\ outcome[r] = "LaunchError"
              /\ ~Invoked(r, "lastContainerID")
              /\ w[r].status >= 400

\* C14 witness: one request ran all three phases with success, another was
\* failed by the config validation.
C14_Witness ==
    \E r, q \in Requests :
        /\ Invoked(r, "UpOk")
        /\ outcome[q] = "ComposeValidationError"

\* prepareService has returned nil to the request.
RenderedOk(r) ==
    /\ Invoked(r, "prepareService")
    /\ pc[r] = "ValidateSystemRequirements" \/ Invoked(r, "ValidateSystemRequirements")

\* C15: rendering is deterministic and idempotent: a successful render
\* leaves exactly the document of its request, whatever the file held, so
\* rendering the same request again over its own document changes nothing.
C15_RenderIdempotent ==
    [][\A r \in Requests :
          (pc[r] = "prepareService" /\ pc'[r] = "ValidateSystemRequirements") =>
              LET path == servicePath(s[r])
                  once == Rendered(createDockerComposeFile(s[r]))
              IN  /\ files'[path] = once
                  /\ files[path] = once => files'[path] = files[path]]_vars

\* C15 witness: two requests with the same fields have both rendered to the
\* same path, and the file is the document of one render.
C15_Witness ==
    \E r, q \in Requests :
        /\ r # q /\ RenderedOk(r) /\ RenderedOk(q)
        /\ s[r].UserID = s[q].UserID /\ s[r].Name = s[q].Name
        /\ s[r].Port = s[q].Port /\ s[r].Architecture = s[q].Architecture
        /\ files[servicePath(s[r])] = Rendered(createDockerComposeFile(s[r]))

\* The token of the request was valid and portcheck returned it a port.
Healthy(r) == ~tokenErr[r] /\ ~portErr[r]

\* The request has begun a transaction on its tenant's store and has not
\* ended it.
TxActive(r) == alive /\ pc[r] \in {"sqlExec", "sqlCommit"}

\* C16: requests of one tenant never have two transactions active on that
\* tenant's store at once, and every committed row is the row of the
\* request that committed it.
C16_OneTransactionPerStore ==
    /\ \A r1, r2 \in Requests :
          (r1 # r2 /\ Healthy(r1) /\ Healthy(r2) /\ TxActive(r1) /\ TxActive(r2))
              => s[r1].UserID # s[r2].UserID
    /\ \A u \in UserIDs : \A i \in DOMAIN store[u] :
          store[u][i] = ClusterRecord(store[u][i].req, s[store[u][i].req])

\* C17: an empty output of the most-recent-container query fails the
\* request: every success response and every ClusterRecord carries a
\* non-empty container identifier.
C17_ContainerIDNeverEmpty ==
    /\ \A r \in Requests :
          (pc[r] = "done" /\ outcome[r] = "Completed" /\ ~portErr[r])
              => LastMessage(r).ContainerID # 0
    /\ \A u \in UserIDs : \A i \in DOMAIN store[u] :
          ~portErr[store[u][i].req] => store[u][i].clusterId # 0

\* C18: no request blocks for ever in an external command: a request that
\* is under way can always take its next step (a hung command is cut short
\* by a timeout that fails the request).
C18_NoRequestBlocked ==
    \A r \in Requests :
        (alive /\ Healthy(r) /\ pc[r] \notin {"idle", "done", "fatal"})
            => ENABLED CreateService(r)

\* C19: the container identifier a request answers with (and stores) is the
\* one of the container this request launched, under any interleaving.
C19_ContainerIDIsOwn ==
    \A r \in Requests :
        (/\ pc[r] = "done" /\ outcome[r] = "Completed" /\ s[r].ID # 0
         /\ \A q \in Requests : Healthy(q))
            => /\ LastMessage(r).ContainerID = r
               /\ \A p \in RecordsOf(r) : store[p[1]][p[2]].clusterId = r

\* C20: the ClusterRecord of a completed request agrees with its response
\* (port and container identifier) and lies in the store of the request's
\* own tenant, and in no other.
C20_RecordAgreesWithResponse ==
    \A u \in UserIDs : \A i \in DOMAIN store[u] :
        LET rec == store[u][i]
            r   == rec.req
        IN  /\ u = s[r].UserID
            /\ RecordsOf(r) = {<<u, i>>}
            /\ pc[r] = "done" /\ outcome[r] = "Completed"
            /\ LastMessage(r) = [HostName |-> "localhost", Port |-> rec.Port,
                                 ContainerID |-> rec.clusterId]

\* C20 witness: two requests of different tenants have each stored a record,
\* one of them with a port above the first of the range and a container id.
C20_Witness ==
    \E r, q \in Requests :
        /\ Persisted(r) /\ Persisted(q)
        /\ s[r].UserID # s[q].UserID
        /\ s[r].Port = StartingPort + 1 /\ s[r].ID # 0
====
